---------------------------- MODULE Spec2Model ----------------------------
(***************************************************************************)
(* Model of 2paso.py: the regex-only cleaner of the columns tipo_via and   *)
(* calle (TIPO_INICIO_RE, CANON_RULES, canonizar_tipo, limpiar_par) and    *)
(* the run of main() against a PostgreSQL table (backup, scan, batched     *)
(* UPDATE/COMMIT, CSV export, dry-run).                                    *)
(*                                                                         *)
(* A Python str is a sequence of one-character strings; None is the value  *)
(* None below (a one-element sequence holding a name that is no character),*)
(* so that every value of a column compares with every other.              *)
(***************************************************************************)
EXTENDS Integers, Sequences, FiniteSets, TLC

\* ------------------------------------------------------------------------
\* Strings
\* ------------------------------------------------------------------------

None == <<"None">>

IsStr(v) == v # None

\* The characters str.strip() removes and \s matches, among those the model
\* draws its inputs from.
WS == {" ", "\t", "\n"}

Uppers == <<"A","B","C","D","E","F","G","H","I","J","K","L","M","N","O","P",
            "Q","R","S","T","U","V","W","X","Y","Z","Á","É","Í","Ó","Ú">>

Lowers == <<"a","b","c","d","e","f","g","h","i","j","k","l","m","n","o","p",
            "q","r","s","t","u","v","w","x","y","z","á","é","í","ó","ú">>

\* str.lower() of one character, which is also how re.IGNORECASE compares.
LowerChar(c) ==
    IF \E i \in 1..Len(Uppers) : Uppers[i] = c
    THEN Lowers[CHOOSE i \in 1..Len(Uppers) : Uppers[i] = c]
    ELSE c

lower(s) == [i \in 1..Len(s) |-> LowerChar(s[i])]

\* Number of leading / trailing whitespace characters of s.
LeadWs(s) ==
    IF \A i \in 1..Len(s) : s[i] \in WS THEN Len(s)
    ELSE (CHOOSE i \in 1..Len(s) : s[i] \notin WS /\ \A p \in 1..(i-1) : s[p] \in WS) - 1

TrailWs(s) ==
    IF \A i \in 1..Len(s) : s[i] \in WS THEN Len(s)
    ELSE Len(s) - (CHOOSE i \in 1..Len(s) : s[i] \notin WS /\ \A p \in (i+1)..Len(s) : s[p] \in WS)

\* str.strip()
strip(s) ==
    IF LeadWs(s) = Len(s) THEN <<>>
    ELSE SubSeq(s, LeadWs(s) + 1, Len(s) - TrailWs(s))

\* ------------------------------------------------------------------------
\* The regular expressions.  Every alternative of the patterns denotes a
\* finite set of words; a pattern is written as that set, in lower case
\* (the patterns are compiled with re.IGNORECASE).
\* ------------------------------------------------------------------------

Eps == <<>>

Dot == <<".">>

\* p(?:s1|s2|...) : the prefix p followed by one of the suffixes.
Cat(p, S) == {p \o s : s \in S}

RX_avenida   == Cat(<<"a","v">>, {Dot, <<"e","n","i","d","a">>, Eps})
RX_calle     == Cat(<<"c","a","l">>, {<<"l","e">>, Dot, Eps}) \cup {<<"c",".">>}
RX_bulevar   == {<<"b","u","l","e","v","a","r">>, <<"b","u","l","v","a","r">>,
                 <<"b","o","u","l","e","v","a","r","d">>}
                \cup Cat(<<"b","l","v","d">>, {Dot, Eps})
RX_circuito  == Cat(<<"c","t","o">>, {Dot, Eps}) \cup {<<"c","i","r","c","u","i","t","o">>}
RX_camino    == Cat(<<"c","a","m">>, {<<"i","n","o">>, Dot, Eps})
RX_calzada   == Cat(<<"c","a","l","z">>, {<<"a","d","a">>, Dot, Eps})
RX_prolong   == Cat(<<"p","r","o","l">>,
                    {Dot, <<"o","n","g","a","c","i","o","n">>,
                     <<"o","n","g","a","c","i","ó","n">>, Eps})
RX_privada   == Cat(<<"p","r","i","v">>, {<<"a","d","a">>, Dot, Eps})
RX_cerrada   == Cat(<<"c","e","r","r">>, {<<"a","d","a">>, Dot, Eps})
RX_callejon  == UNION {Cat(w, {Dot, Eps}) :
                         w \in {<<"c","j","o","n">>,
                                <<"c","a","l","l","e","j","o","n">>,
                                <<"c","a","l","l","e","j","ó","n">>}}
RX_andador   == Cat(<<"a","n","d">>, {<<"a","d","o","r">>, Dot, Eps})
RX_carretera == {<<"c","a","r","r","e","t","e","r","a">>}
                \cup Cat(<<"c","a","r","r">>, {Dot, Eps})
                \cup Cat(<<"c","t","e">>, {Dot, Eps})
RX_eje       == {<<"e","j","e">>}
RX_paseo     == {<<"p","a","s","e","o">>, <<"p","s","e","o">>}
                \cup Cat(<<"p","s","j","e">>, {Dot, Eps})
RX_anillo    == {<<"a","n","i","l","l","o">>}
RX_via       == {<<"v","i","a">>, <<"v","í","a">>}
RX_perif     == Cat(<<"p","e","r","i","f">>,
                    {<<"e","r","i","c","o">>, <<"é","r","i","c","o">>, Dot, Eps})
RX_viaducto  == Cat(<<"v","i","a","d">>, {<<"u","c","t","o">>, Dot, Eps})
RX_aldea     == {<<"a","l","d","e","a">>}

\* The canonical labels.
Avenida      == <<"A","v","e","n","i","d","a">>
Calle        == <<"C","a","l","l","e">>
Bulevar      == <<"B","u","l","e","v","a","r">>
Circuito     == <<"C","i","r","c","u","i","t","o">>
Camino       == <<"C","a","m","i","n","o">>
Calzada      == <<"C","a","l","z","a","d","a">>
Prolongacion == <<"P","r","o","l","o","n","g","a","c","i","ó","n">>
Privada      == <<"P","r","i","v","a","d","a">>
Cerrada      == <<"C","e","r","r","a","d","a">>
Callejon     == <<"C","a","l","l","e","j","ó","n">>
Andador      == <<"A","n","d","a","d","o","r">>
Carretera    == <<"C","a","r","r","e","t","e","r","a">>
Eje          == <<"E","j","e">>
Paseo        == <<"P","a","s","e","o">>
Anillo       == <<"A","n","i","l","l","o">>
Via          == <<"V","í","a">>
Periferico   == <<"P","e","r","i","f","é","r","i","c","o">>
Viaducto     == <<"V","i","a","d","u","c","t","o">>
Aldea        == <<"A","l","d","e","a">>

\* CANON_RULES: the ordered list (pattern, canonical label).
CANON_RULES ==
    << [rx |-> RX_avenida,   canon |-> Avenida],
       [rx |-> RX_calle,     canon |-> Calle],
       [rx |-> RX_bulevar,   canon |-> Bulevar],
       [rx |-> RX_circuito,  canon |-> Circuito],
       [rx |-> RX_camino,    canon |-> Camino],
       [rx |-> RX_calzada,   canon |-> Calzada],
       [rx |-> RX_prolong,   canon |-> Prolongacion],
       [rx |-> RX_privada,   canon |-> Privada],
       [rx |-> RX_cerrada,   canon |-> Cerrada],
       [rx |-> RX_callejon,  canon |-> Callejon],
       [rx |-> RX_andador,   canon |-> Andador],
       [rx |-> RX_carretera, canon |-> Carretera],
       [rx |-> RX_eje,       canon |-> Eje],
       [rx |-> RX_paseo,     canon |-> Paseo],
       [rx |-> RX_anillo,    canon |-> Anillo],
       [rx |-> RX_via,       canon |-> Via],
       [rx |-> RX_perif,     canon |-> Periferico],
       [rx |-> RX_viaducto,  canon |-> Viaducto],
       [rx |-> RX_aldea,     canon |-> Aldea] >>

\* The 19 canonical labels.
CanonLabels == {CANON_RULES[i].canon : i \in 1..Len(CANON_RULES)}

\* The group (?P<tipo>...) of TIPO_INICIO_RE: the same alternatives, in the
\* same order.  (Its alternative c\.(?=\s) is c\. followed by whitespace,
\* which the \s+ after the group demands of every alternative.)
TIPO_GROUP ==
    RX_avenida \cup RX_calle \cup RX_bulevar \cup RX_circuito \cup RX_camino
    \cup RX_calzada \cup RX_prolong \cup RX_privada \cup RX_cerrada
    \cup RX_callejon \cup RX_andador \cup RX_carretera \cup RX_eje
    \cup RX_paseo \cup RX_anillo \cup RX_via \cup RX_perif \cup RX_viaducto
    \cup RX_aldea

\* rx.match(t) for a rule ^(?:...)$ : the whole of t is a word of the rule;
\* without re.MULTILINE, $ also matches just before a final line break.
RuleMatches(rx, t) ==
    \/ lower(t) \in rx
    \/ /\ Len(t) > 0
       /\ t[Len(t)] = "\n"
       /\ lower(SubSeq(t, 1, Len(t) - 1)) \in rx

\* (?P<nombre>.+)$ on the rest r of the string: "." matches every character
\* but the line break, and $ matches at the end or before a final line break.
\* The number of characters the group takes, or 0 when it cannot match.
NombreLen(r) ==
    IF Len(r) > 0 /\ \A i \in 1..Len(r) : r[i] # "\n" THEN Len(r)
    ELSE IF Len(r) > 1 /\ r[Len(r)] = "\n" /\ \A i \in 1..(Len(r)-1) : r[i] # "\n"
         THEN Len(r) - 1
         ELSE 0

NoMatch == [ok |-> FALSE, tipo |-> <<>>, nombre |-> <<>>]

\* Body applied to the value of e, which is computed once.
Let(e, Body(_)) == CHOOSE r \in {Body(v) : v \in {e}} : TRUE

\* The match once \s* has taken i0 characters and the group tipo k: \s+ is
\* greedy, so it takes the largest j that lets nombre match.
MatchToken(s, i0, k) ==
    Let({j \in 1..(Len(s) - i0 - k) :
            /\ \A p \in (i0 + k + 1)..(i0 + k + j) : s[p] \in WS
            /\ NombreLen(SubSeq(s, i0 + k + j + 1, Len(s))) > 0},
        LAMBDA js :
            IF js = {} THEN NoMatch
            ELSE Let(CHOOSE x \in js : \A y \in js : y <= x,
                     LAMBDA j :
                         [ok     |-> TRUE,
                          tipo   |-> SubSeq(s, i0 + 1, i0 + k),
                          nombre |-> SubSeq(s, i0 + k + j + 1,
                                            i0 + k + j +
                                            NombreLen(SubSeq(s, i0 + k + j + 1, Len(s))))]))

\* The match once \s* has taken i0 characters.  The group tipo takes k
\* characters: a word of the group that whitespace follows; the words hold
\* no whitespace, so at most one k fits and the order of the alternatives
\* decides nothing more.
MatchFrom(s, i0) ==
    Let({k \in 1..(Len(s) - i0) :
            /\ i0 + k < Len(s)
            /\ s[i0 + k + 1] \in WS
            /\ lower(SubSeq(s, i0 + 1, i0 + k)) \in TIPO_GROUP},
        LAMBDA ks :
            IF ks = {} THEN NoMatch
            ELSE MatchToken(s, i0, CHOOSE x \in ks : TRUE))

\* TIPO_INICIO_RE.match(s): ^\s* (?P<tipo>...) \s+ (?P<nombre>.+)$
TIPO_INICIO_RE_match(s) == Let(LeadWs(s), LAMBDA i0 : MatchFrom(s, i0))

\* The loop "for rx, canon in CANON_RULES" on the token t: the label of the
\* first rule that matches t, and t itself when none does.
CanonOf(t) ==
    Let({i \in 1..Len(CANON_RULES) : RuleMatches(CANON_RULES[i].rx, t)},
        LAMBDA hits :
            IF hits = {} THEN t
            ELSE CANON_RULES[CHOOSE i \in hits : \A h \in hits : i <= h].canon)

\* Lines 78-80: t reduced to its leading token when the pattern matches it.
LeadingToken(t) ==
    Let(TIPO_INICIO_RE_match(t), LAMBDA mt : IF mt.ok THEN mt.tipo ELSE t)

\* canonizar_tipo with the rules tried on the whole trimmed input instead of
\* on its leading token.
canonizar_tipo_whole(tipo) ==
    IF ~IsStr(tipo) \/ strip(tipo) = <<>> THEN tipo
    ELSE Let(strip(tipo),
             LAMBDA t0 : IF CanonOf(t0) # t0 THEN CanonOf(t0) ELSE LeadingToken(t0))

\* canonizar_tipo with the leading token returned as captured, the rules
\* being tried only on an input that holds no name.
canonizar_tipo_token_raw(tipo) ==
    IF ~IsStr(tipo) \/ strip(tipo) = <<>> THEN tipo
    ELSE Let(strip(tipo),
             LAMBDA t0 : IF TIPO_INICIO_RE_match(t0).ok THEN LeadingToken(t0)
                         ELSE CanonOf(t0))

canonizar_tipo(tipo) ==
    IF ~IsStr(tipo) \/ strip(tipo) = <<>> THEN tipo
    ELSE Let(strip(tipo), LAMBDA t0 : Let(LeadingToken(t0), CanonOf))

\* extraer with the match made on the lower-cased name, so that the token
\* captured is the lower-cased one.
extraer_lowered(ca) ==
    IF ~IsStr(ca) THEN NoMatch
    ELSE Let(strip(ca),
             LAMBDA s :
                 Let(TIPO_INICIO_RE_match(lower(s)),
                     LAMBDA m0 :
                         [m0 EXCEPT !.nombre =
                             SubSeq(s, Len(s) - Len(m0.nombre) + 1, Len(s))]))

\* Step 1 of limpiar_par (lines 97-101): the extraction from the start of
\* calle, giving the raw token and the trimmed name.
extraer(ca) ==
    IF ~IsStr(ca) THEN NoMatch
    ELSE Let(strip(ca),
             LAMBDA s :
                 Let(TIPO_INICIO_RE_match(s),
                     LAMBDA m0 : [m0 EXCEPT !.nombre = strip(m0.nombre)]))

\* Steps 2 to 4 with a step 3 that, when tipo_via and calle hold the same
\* text, takes that text for the type and leaves the name empty.
SinTipoEnCalle_same_text(tv, ca) ==
    IF IsStr(tv) /\ IsStr(ca) /\ lower(strip(tv)) = lower(strip(ca))
    THEN <<canonizar_tipo(tv), <<>>>>
    ELSE <<canonizar_tipo(tv), IF IsStr(ca) THEN strip(ca) ELSE ca>>

\* Steps 2 to 4 of limpiar_par (lines 105-116).
SinTipoEnCalle(tv, ca) ==
    Let(IF IsStr(tv) /\ IsStr(ca) /\ lower(strip(tv)) = lower(strip(ca))
        THEN extraer(ca) ELSE NoMatch,
        LAMBDA m2 :
            IF m2.ok
            THEN <<canonizar_tipo(m2.tipo), m2.nombre>>
            ELSE <<canonizar_tipo(tv), IF IsStr(ca) THEN strip(ca) ELSE ca>>)

\* limpiar_par(tipo_via, calle) -> <<tipo, calle>>
limpiar_par(tv, ca) ==
    Let(extraer(ca),
        LAMBDA m1 :
            IF m1.ok
            THEN <<canonizar_tipo(m1.tipo), m1.nombre>>
            ELSE SinTipoEnCalle(tv, ca))

\* ------------------------------------------------------------------------
\* The flat-file entry point (1paso.py)
\* ------------------------------------------------------------------------

Accented == <<"Á","É","Í","Ó","Ú","á","é","í","ó","ú">>

Unaccented == <<"A","E","I","O","U","a","e","i","o","u">>

\* strip_accents: NFKD decomposition with the combining marks dropped, on
\* the characters the model draws its inputs from.
strip_accents(s) ==
    [i \in 1..Len(s) |->
        IF \E k \in 1..Len(Accented) : Accented[k] = s[i]
        THEN Unaccented[CHOOSE k \in 1..Len(Accented) : Accented[k] = s[i]]
        ELSE s[i]]

norm(s) == strip(lower(strip_accents(s)))

Boulevard == <<"B","o","u","l","e","v","a","r","d">>

\* TYPE_MAP, in the order of the dictionary: canonical form, variants.
TYPE_MAP ==
    << [canon |-> Avenida,
        variants |-> {<<"a","v","e","n","i","d","a">>, <<"a","v">>, <<"a","v",".">>,
                      <<"a","v","d","a">>, <<"a","v","d","a",".">>}],
       [canon |-> Calle,
        variants |-> {<<"c","a","l","l","e">>, <<"c","a","l">>, <<"c","a","l",".">>,
                      <<"c",".">>}],
       [canon |-> Bulevar,
        variants |-> {<<"b","u","l","e","v","a","r">>,
                      <<"b","o","u","l","e","v","a","r","d">>,
                      <<"b","l","v","d">>, <<"b","l","v","d",".">>}],
       [canon |-> Circuito,
        variants |-> {<<"c","i","r","c","u","i","t","o">>, <<"c","t","o">>,
                      <<"c","t","o",".">>}],
       [canon |-> Camino,
        variants |-> {<<"c","a","m","i","n","o">>, <<"c","a","m">>, <<"c","a","m",".">>}],
       [canon |-> Calzada,
        variants |-> {<<"c","a","l","z","a","d","a">>, <<"c","a","l","z">>,
                      <<"c","a","l","z",".">>}],
       [canon |-> Prolongacion,
        variants |-> {<<"p","r","o","l","o","n","g","a","c","i","o","n">>,
                      <<"p","r","o","l">>, <<"p","r","o","l",".">>,
                      <<"p","r","o","l","o","n","g",".">>}],
       [canon |-> Privada,
        variants |-> {<<"p","r","i","v","a","d","a">>, <<"p","r","i","v">>,
                      <<"p","r","i","v",".">>}],
       [canon |-> Cerrada,
        variants |-> {<<"c","e","r","r","a","d","a">>, <<"c","e","r","r">>,
                      <<"c","e","r","r",".">>}],
       [canon |-> Callejon,
        variants |-> {<<"c","a","l","l","e","j","o","n">>, <<"c","j","o","n">>,
                      <<"c","j","o","n",".">>, <<"c","j","n">>, <<"c","j","n",".">>}],
       [canon |-> Andador,
        variants |-> {<<"a","n","d","a","d","o","r">>, <<"a","n","d">>,
                      <<"a","n","d",".">>}],
       [canon |-> Carretera,
        variants |-> {<<"c","a","r","r","e","t","e","r","a">>, <<"c","a","r","r">>,
                      <<"c","a","r","r",".">>, <<"c","t","e">>, <<"c","t","e",".">>}],
       [canon |-> Eje, variants |-> {<<"e","j","e">>}],
       [canon |-> Paseo,
        variants |-> {<<"p","a","s","e","o">>, <<"p","s","j","e">>,
                      <<"p","s","j","e",".">>, <<"p","s","e","o">>}],
       [canon |-> Anillo, variants |-> {<<"a","n","i","l","l","o">>}],
       [canon |-> Via, variants |-> {<<"v","i","a">>, <<"v","í","a">>}],
       [canon |-> Periferico,
        variants |-> {<<"p","e","r","i","f","e","r","i","c","o">>,
                      <<"p","e","r","i","f",".">>}],
       [canon |-> Viaducto,
        variants |-> {<<"v","i","a","d","u","c","t","o">>, <<"v","i","a","d",".">>}],
       [canon |-> Aldea, variants |-> {<<"a","l","d","e","a">>}],
       [canon |-> Boulevard,
        variants |-> {<<"b","o","u","l","e","v","a","r","d">>, <<"b","l","v","d">>,
                      <<"b","l","v","d",".">>}] >>

\* The keys of VARIANT_TO_CANON.
Variants == UNION {TYPE_MAP[i].variants : i \in 1..Len(TYPE_MAP)}

\* VARIANT_TO_CANON[v]: the loop of lines 48-50 assigns in the order of
\* TYPE_MAP, so the last entry that lists v is the one that stays.
VARIANT_TO_CANON(v) ==
    TYPE_MAP[CHOOSE i \in 1..Len(TYPE_MAP) :
                /\ v \in TYPE_MAP[i].variants
                /\ \A j \in (i+1)..Len(TYPE_MAP) : v \notin TYPE_MAP[j].variants].canon

\* The variant the group tipo of CALLE_HEAD_REGEX captures in the word w
\* that [\.]? may end: the alternatives are sorted longest first, so w itself
\* when it is a variant, else w without its final dot; <<>> when neither is.
HeadVariant(w) ==
    IF lower(w) \in Variants THEN w
    ELSE IF Len(w) > 1 /\ w[Len(w)] = "." /\ lower(SubSeq(w, 1, Len(w) - 1)) \in Variants
         THEN SubSeq(w, 1, Len(w) - 1)
         ELSE <<>>

\* CALLE_HEAD_REGEX.match(s): ^\s*(?P<tipo>...)[\.]?\s+(?P<nombre>.+)$
CALLE_HEAD_REGEX_match(s) ==
    Let(LeadWs(s),
        LAMBDA i0 :
            Let({k \in 1..(Len(s) - i0) :
                    /\ i0 + k < Len(s)
                    /\ s[i0 + k + 1] \in WS
                    /\ HeadVariant(SubSeq(s, i0 + 1, i0 + k)) # <<>>},
                LAMBDA ks :
                    IF ks = {} THEN NoMatch
                    ELSE Let(CHOOSE x \in ks : TRUE,
                             LAMBDA k :
                                 [MatchToken(s, i0, k) EXCEPT
                                     !.tipo = HeadVariant(SubSeq(s, i0 + 1, i0 + k))])))

\* str.split(): the words of s, split at runs of whitespace.
RECURSIVE split(_)
split(s) ==
    Let(strip(s),
        LAMBDA t :
            IF t = <<>> THEN <<>>
            ELSE Let(IF \E i \in 1..Len(t) : t[i] \in WS
                     THEN (CHOOSE i \in 1..Len(t) :
                              t[i] \in WS /\ \A p \in 1..(i-1) : t[p] \notin WS) - 1
                     ELSE Len(t),
                     LAMBDA k : <<SubSeq(t, 1, k)>> \o split(SubSeq(t, k + 1, Len(t)))))

\* " ".join(parts)
RECURSIVE join(_)
join(parts) ==
    IF parts = <<>> THEN <<>>
    ELSE IF Len(parts) = 1 THEN parts[1]
    ELSE parts[1] \o <<" ">> \o join(Tail(parts))

\* extract_from_calle(calle_val) -> [tipo, nombre]; tipo is None when no
\* type is found at the start of calle_val.
extract_from_calle(calle_val) ==
    IF ~IsStr(calle_val) \/ strip(calle_val) = <<>>
    THEN [tipo |-> None, nombre |-> calle_val]
    ELSE Let(strip(calle_val),
             LAMBDA raw :
                 Let(CALLE_HEAD_REGEX_match(norm(raw)),
                     LAMBDA mh :
                         IF ~mh.ok THEN [tipo |-> None, nombre |-> raw]
                         ELSE Let(split(raw),
                                  LAMBDA parts_orig :
                                      [tipo   |-> VARIANT_TO_CANON(lower(mh.tipo)),
                                       nombre |-> IF Len(parts_orig) >= 2
                                                  THEN strip(join(Tail(parts_orig)))
                                                  ELSE raw])))

\* canonicalize_tipo(tipo_val) of 1paso.py
canonicalize_tipo(tipo_val) ==
    IF ~IsStr(tipo_val) \/ strip(tipo_val) = <<>> THEN tipo_val
    ELSE Let(norm(tipo_val),
             LAMBDA n :
                 Let(CALLE_HEAD_REGEX_match(n),
                     LAMBDA mh :
                         IF mh.ok THEN VARIANT_TO_CANON(lower(mh.tipo))
                         ELSE IF n \in Variants THEN VARIANT_TO_CANON(n)
                         ELSE IF \E i \in 1..Len(TYPE_MAP) : n = norm(TYPE_MAP[i].canon)
                              THEN TYPE_MAP[CHOOSE i \in 1..Len(TYPE_MAP) :
                                               /\ n = norm(TYPE_MAP[i].canon)
                                               /\ \A j \in 1..(i-1) :
                                                      n # norm(TYPE_MAP[j].canon)].canon
                              ELSE strip(tipo_val)))

\* clean_row(tipo_via, calle) -> <<tipo, calle>>
clean_row(tv, ca) ==
    Let(extract_from_calle(ca),
        LAMBDA e :
            IF e.tipo # None
            THEN <<e.tipo, IF IsStr(e.nombre) THEN strip(e.nombre) ELSE e.nombre>>
            ELSE Let(IF IsStr(tv) /\ IsStr(ca) /\ norm(tv) = norm(ca)
                     THEN extract_from_calle(ca)
                     ELSE [tipo |-> None, nombre |-> ca],
                     LAMBDA e2 :
                         IF e2.tipo # None THEN <<e2.tipo, strip(e2.nombre)>>
                         ELSE <<canonicalize_tipo(tv),
                                IF IsStr(ca) THEN strip(ca) ELSE ca>>))

\* ------------------------------------------------------------------------
\* State
\* ------------------------------------------------------------------------

VARIABLES
    \* limpiar_par applied to one stored pair, and again to its result
    tipo_via, calle, m, par, par_again, fase,
    \* canonizar_tipo applied to one input, and again to its result
    canon, canon_again,
    \* clean_row of the flat-file entry point applied to the stored pair
    fila,
    \* a run of main()
    args,        \* the parsed command line
    snapshot,    \* the table when the run started
    committed,   \* the table as committed in the database
    work,        \* the table as the connection's open transaction sees it
    backup_tx,   \* the backup table as the open transaction sees it
    backup_db,   \* the backup table as committed
    scan,        \* the rows the cursor scan has still to deliver
    changed_ids, shown, to_commit, updated,
    csv,         \* the exported file
    log,         \* the statements sent to the server, in order
    pc, exit_status,
    prev         \* the outcome of the dry-run that came before this run

parvars == <<tipo_via, calle, m, par, par_again, fase, canon, canon_again,
            fila>>

runvars == <<args, snapshot, committed, work, backup_tx, backup_db, scan,
             changed_ids, shown, to_commit, updated, csv, log, pc,
             exit_status, prev>>

vars == <<parvars, runvars>>

\* ------------------------------------------------------------------------
\* A run of main()
\* ------------------------------------------------------------------------

\* Rows of the table; the primary key of a row is its index, 1..MaxRows, and
\* it is the first column of the table (export_csv filters on cols[0]).
MaxRows == 3

\* Largest --batch-commit and --limit drawn.
MaxBatch == 2

MaxLimit == 1

\* --preview, at its default.
PreviewDefault == 10

AvDot == <<"A","v",".">>

Reforma == <<"R","e","f","o","r","m","a">>

LasFlores == <<"L","a","s"," ","F","l","o","r","e","s">>

\* The stored pairs (tipo_via, calle) a row is drawn from.
StoredPairs ==
    { <<AvDot, Reforma>>,
      <<Privada, LasFlores>>,
      <<Privada \o <<" ">>, LasFlores>>,
      <<Calle, Avenida \o <<" ">> \o Reforma>> }

\* A column the cleaner never names, for the rows of the model.
Zone(id) == IF id % 2 = 1 THEN "A" ELSE "B"

Tables ==
    { [id \in 1..MaxRows |->
          [tipo_via |-> f[id][1], calle |-> f[id][2], cp |-> Zone(id)]] :
      f \in [1..MaxRows -> StoredPairs] }

\* The --where clauses drawn: none, tipo_via = 'Av.', cp = 'A'.
Wheres == {"none", "abbr", "zone"}

WhereHolds(w, row) ==
    CASE w = "none" -> TRUE
      [] w = "abbr" -> row.tipo_via = AvDot
      [] w = "zone" -> row.cp = "A"

\* The arguments main() reads before the export.  --export and --limit are
\* read by export_csv alone and are drawn when it runs.
Args ==
    [dry_run : BOOLEAN, backup : BOOLEAN, batch_commit : 1..MaxBatch,
     where : Wheres]

ExportModes == {"all", "changed"}

NoTable == <<>>

NoPar == <<None, None>>

NoCsv ==
    [written |-> FALSE, mode |-> "all", limit |-> 0, rows |-> <<>>,
     notice |-> FALSE]

NoPrev == [ran |-> FALSE, changed_ids |-> {}, updated |-> 0, table |-> NoTable]

Ev(op, ok) == [op |-> op, ok |-> ok]

\* The ids of tbl, from i on, whose row passes the --where clause w, in
\* primary-key order.
RECURSIVE IdsFrom(_, _, _)
IdsFrom(tbl, i, w) ==
    IF i > Len(tbl) THEN <<>>
    ELSE (IF WhereHolds(w, tbl[i]) THEN <<i>> ELSE <<>>) \o IdsFrom(tbl, i + 1, w)

\* SELECT pk, tipo_via, calle FROM table [WHERE where] ORDER BY pk
SelectScan(tbl, w) ==
    Let(IdsFrom(tbl, 1, w),
        LAMBDA ids :
            [k \in 1..Len(ids) |->
                [id |-> ids[k], tipo_via |-> tbl[ids[k]].tipo_via,
                 calle |-> tbl[ids[k]].calle]])

\* The UPDATE without its WHERE clause: every row takes the new values.
Update_no_where(tbl, rid, nt, nc) ==
    [id \in DOMAIN tbl |-> [tbl[id] EXCEPT !.tipo_via = nt, !.calle = nc]]

\* UPDATE table SET tipo_via = nt, calle = nc WHERE pk = rid
Update(tbl, rid, nt, nc) ==
    [id \in DOMAIN tbl |->
        IF id = rid THEN [tbl[id] EXCEPT !.tipo_via = nt, !.calle = nc]
        ELSE tbl[id]]

\* Line 313 with both sides trimmed before they are compared.
Changed_trimmed(row, nt, nc) ==
    ~(/\ (IF IsStr(nt) THEN strip(nt) ELSE nt)
          = (IF IsStr(row.tipo_via) THEN strip(row.tipo_via) ELSE row.tipo_via)
      /\ (IF IsStr(nc) THEN strip(nc) ELSE nc)
          = (IF IsStr(row.calle) THEN strip(row.calle) ELSE row.calle))

\* Line 313: the record changes unless both new values equal the stored ones.
Changed(row, nt, nc) == ~((nt = row.tipo_via) /\ (nc = row.calle))

\* Lines 316-318.
Shown(n) == IF PreviewDefault # 0 /\ n < PreviewDefault THEN n + 1 ELSE n

RunOff ==
    /\ args = [dry_run |-> TRUE, backup |-> FALSE, batch_commit |-> 1,
               where |-> "none"]
    /\ snapshot = NoTable /\ committed = NoTable /\ work = NoTable
    /\ backup_tx = NoTable /\ backup_db = NoTable
    /\ scan = <<>> /\ changed_ids = {} /\ shown = 0 /\ to_commit = 0
    /\ updated = 0 /\ csv = NoCsv /\ log = <<>> /\ pc = "off"
    /\ exit_status = -1 /\ prev = NoPrev

ParOff ==
    /\ tipo_via = None /\ calle = None /\ m = NoMatch
    /\ par = NoPar /\ par_again = NoPar /\ fase = "off"
    /\ canon = None /\ canon_again = None /\ fila = NoPar

Init ==
    /\ ParOff
    /\ args \in Args
    /\ snapshot \in Tables
    /\ committed = snapshot /\ work = snapshot
    /\ backup_tx = NoTable /\ backup_db = NoTable
    /\ scan = <<>> /\ changed_ids = {} /\ shown = 0 /\ to_commit = 0
    /\ updated = 0 /\ csv = NoCsv /\ log = <<>> /\ pc = "start"
    /\ exit_status = -1 /\ prev = NoPrev

\* The exception path with the error reported and the process ending as
\* if the run had gone well.
Abort_exit_zero(sent, op) ==
    /\ log' = log \o sent \o <<Ev(op, FALSE), Ev("ROLLBACK", TRUE)>>
    /\ work' = committed
    /\ backup_tx' = backup_db
    /\ pc' = "failed"
    /\ exit_status' = 0

\* The exception path: the statement op raises, the with block of the
\* connection rolls the open transaction back (line 279), and the handler of
\* lines 353-355 prints the error and exits with status 1.
Abort(sent, op) ==
    /\ log' = log \o sent \o <<Ev(op, FALSE), Ev("ROLLBACK", TRUE)>>
    /\ work' = committed
    /\ backup_tx' = backup_db
    /\ pc' = "failed"
    /\ exit_status' = 1

\* Lines 282-286: backup requested and not a dry-run.
BackupOk ==
    /\ pc = "start" /\ args.backup /\ ~args.dry_run
    /\ backup_tx' = work
    /\ backup_db' = work
    /\ committed' = work
    /\ log' = log \o <<Ev("CREATE", TRUE), Ev("COMMIT", TRUE)>>
    /\ pc' = "scan"
    /\ UNCHANGED <<parvars, args, snapshot, work, scan, changed_ids, shown,
                   to_commit, updated, csv, exit_status, prev>>

\* ensure_backup raises and the error is swallowed: the run goes on.
BackupCreateFails_goes_on ==
    /\ pc = "start" /\ args.backup /\ ~args.dry_run
    /\ log' = log \o <<Ev("CREATE", FALSE)>>
    /\ pc' = "scan"
    /\ UNCHANGED <<parvars, args, snapshot, committed, work, backup_tx,
                   backup_db, scan, changed_ids, shown, to_commit, updated,
                   csv, exit_status, prev>>

\* ensure_backup raises.
BackupCreateFails ==
    /\ pc = "start" /\ args.backup /\ ~args.dry_run
    /\ Abort(<<>>, "CREATE")
    /\ UNCHANGED <<parvars, args, snapshot, committed, backup_db, scan,
                   changed_ids, shown, to_commit, updated, csv, prev>>

\* The commit of line 285 raises.
BackupCommitFails ==
    /\ pc = "start" /\ args.backup /\ ~args.dry_run
    /\ Abort(<<Ev("CREATE", TRUE)>>, "COMMIT")
    /\ UNCHANGED <<parvars, args, snapshot, committed, backup_db, scan,
                   changed_ids, shown, to_commit, updated, csv, prev>>

\* Line 282 false: no backup.
BackupSkipped ==
    /\ pc = "start" /\ ~(args.backup /\ ~args.dry_run)
    /\ pc' = "scan"
    /\ UNCHANGED <<parvars, args, snapshot, committed, work, backup_tx,
                   backup_db, scan, changed_ids, shown, to_commit, updated,
                   csv, log, exit_status, prev>>

\* Lines 289-305: the scan is opened and the counters are set.
OpenScan ==
    /\ pc = "scan"
    /\ scan' = SelectScan(work, args.where)
    /\ changed_ids' = {} /\ shown' = 0 /\ to_commit' = 0 /\ updated' = 0
    /\ pc' = "loop"
    /\ UNCHANGED <<parvars, args, snapshot, committed, work, backup_tx,
                   backup_db, csv, log, exit_status, prev>>

\* Lines 307-314: a record limpiar_par leaves as stored is skipped.
RowSkipped ==
    /\ pc = "loop" /\ scan # <<>>
    /\ \E row \in {Head(scan)} :
       \E p \in {limpiar_par(row.tipo_via, row.calle)} :
           ~Changed(row, p[1], p[2])
    /\ scan' = Tail(scan)
    /\ UNCHANGED <<parvars, args, snapshot, committed, work, backup_tx,
                   backup_db, changed_ids, shown, to_commit, updated, csv,
                   log, pc, exit_status, prev>>

\* A dry-run that executes the UPDATE all the same.
RowSimulated_writes ==
    /\ pc = "loop" /\ scan # <<>> /\ args.dry_run
    /\ \E row \in {Head(scan)} :
       \E p \in {limpiar_par(row.tipo_via, row.calle)} :
           /\ Changed(row, p[1], p[2])
           /\ changed_ids' = changed_ids \cup {row.id}
           /\ work' = Update(work, row.id, p[1], p[2])
    /\ log' = log \o <<Ev("UPDATE", TRUE)>>
    /\ shown' = Shown(shown)
    /\ updated' = updated + 1
    /\ scan' = Tail(scan)
    /\ UNCHANGED <<parvars, args, snapshot, committed, backup_tx, backup_db,
                   to_commit, csv, pc, exit_status, prev>>

\* A dry-run that records the id only of a record it writes: none.
RowSimulated_no_id ==
    /\ pc = "loop" /\ scan # <<>> /\ args.dry_run
    /\ \E row \in {Head(scan)} :
       \E p \in {limpiar_par(row.tipo_via, row.calle)} :
           Changed(row, p[1], p[2])
    /\ shown' = Shown(shown)
    /\ updated' = updated + 1
    /\ scan' = Tail(scan)
    /\ UNCHANGED <<parvars, args, snapshot, committed, work, backup_tx,
                   backup_db, changed_ids, to_commit, csv, log, pc,
                   exit_status, prev>>

\* Lines 307-328 in a dry-run: the change is shown and counted, not written.
RowSimulated ==
    /\ pc = "loop" /\ scan # <<>> /\ args.dry_run
    /\ \E row \in {Head(scan)} :
       \E p \in {limpiar_par(row.tipo_via, row.calle)} :
           /\ Changed(row, p[1], p[2])
           /\ changed_ids' = changed_ids \cup {row.id}
    /\ shown' = Shown(shown)
    /\ updated' = updated + 1
    /\ scan' = Tail(scan)
    /\ UNCHANGED <<parvars, args, snapshot, committed, work, backup_tx,
                   backup_db, to_commit, csv, log, pc, exit_status, prev>>

\* Normal mode on a connection left in autocommit: every UPDATE is durable
\* at once.
RowUpdated_autocommit ==
    /\ pc = "loop" /\ scan # <<>> /\ ~args.dry_run
    /\ \E row \in {Head(scan)} :
       \E p \in {limpiar_par(row.tipo_via, row.calle)} :
       \E full \in {to_commit + 1 >= args.batch_commit} :
           /\ Changed(row, p[1], p[2])
           /\ changed_ids' = changed_ids \cup {row.id}
           /\ work' = Update(work, row.id, p[1], p[2])
           /\ committed' = work'
           /\ backup_db' = backup_tx
           /\ to_commit' = IF full THEN 0 ELSE to_commit + 1
           /\ log' = log \o <<Ev("UPDATE", TRUE)>>
                         \o (IF full THEN <<Ev("COMMIT", TRUE)>> ELSE <<>>)
    /\ shown' = Shown(shown)
    /\ updated' = updated + 1
    /\ scan' = Tail(scan)
    /\ UNCHANGED <<parvars, args, snapshot, backup_tx, csv, pc, exit_status,
                   prev>>

\* Lines 307-328 in normal mode: the UPDATE is executed and, when to_commit
\* reaches the batch size, committed.
RowUpdated ==
    /\ pc = "loop" /\ scan # <<>> /\ ~args.dry_run
    /\ \E row \in {Head(scan)} :
       \E p \in {limpiar_par(row.tipo_via, row.calle)} :
       \E full \in {to_commit + 1 >= args.batch_commit} :
           /\ Changed(row, p[1], p[2])
           /\ changed_ids' = changed_ids \cup {row.id}
           /\ work' = Update(work, row.id, p[1], p[2])
           /\ committed' = IF full THEN work' ELSE committed
           /\ backup_db' = IF full THEN backup_tx ELSE backup_db
           /\ to_commit' = IF full THEN 0 ELSE to_commit + 1
           /\ log' = log \o <<Ev("UPDATE", TRUE)>>
                         \o (IF full THEN <<Ev("COMMIT", TRUE)>> ELSE <<>>)
    /\ shown' = Shown(shown)
    /\ updated' = updated + 1
    /\ scan' = Tail(scan)
    /\ UNCHANGED <<parvars, args, snapshot, backup_tx, csv, pc, exit_status,
                   prev>>

\* The UPDATE of line 323 raises.
RowUpdateFails ==
    /\ pc = "loop" /\ scan # <<>> /\ ~args.dry_run
    /\ \E row \in {Head(scan)} :
       \E p \in {limpiar_par(row.tipo_via, row.calle)} :
           /\ Changed(row, p[1], p[2])
           /\ changed_ids' = changed_ids \cup {row.id}
    /\ shown' = Shown(shown)
    /\ Abort(<<>>, "UPDATE")
    /\ UNCHANGED <<parvars, args, snapshot, committed, backup_db, scan,
                   to_commit, updated, csv, prev>>

\* The UPDATE is executed and the commit of line 326 raises.
RowCommitFails ==
    /\ pc = "loop" /\ scan # <<>> /\ ~args.dry_run
    /\ \E row \in {Head(scan)} :
       \E p \in {limpiar_par(row.tipo_via, row.calle)} :
           /\ Changed(row, p[1], p[2])
           /\ changed_ids' = changed_ids \cup {row.id}
    /\ to_commit + 1 >= args.batch_commit
    /\ to_commit' = to_commit + 1
    /\ shown' = Shown(shown)
    /\ Abort(<<Ev("UPDATE", TRUE)>>, "COMMIT")
    /\ UNCHANGED <<parvars, args, snapshot, committed, backup_db, scan,
                   updated, csv, prev>>

\* The end of the scan without the commit of lines 330-331.
FinalCommit_forgotten ==
    /\ pc = "loop" /\ scan = <<>>
    /\ ~args.dry_run /\ to_commit > 0
    /\ pc' = "export"
    /\ UNCHANGED <<parvars, args, snapshot, committed, work, backup_tx,
                   backup_db, scan, changed_ids, shown, to_commit, updated,
                   csv, log, exit_status, prev>>

\* Lines 330-333: the commit of the last, partial batch.
FinalCommit ==
    /\ pc = "loop" /\ scan = <<>>
    /\ ~args.dry_run /\ to_commit > 0
    /\ committed' = work
    /\ backup_db' = backup_tx
    /\ log' = log \o <<Ev("COMMIT", TRUE)>>
    /\ pc' = "export"
    /\ UNCHANGED <<parvars, args, snapshot, work, backup_tx, scan,
                   changed_ids, shown, to_commit, updated, csv, exit_status,
                   prev>>

\* The commit of line 331 raises.
FinalCommitFails ==
    /\ pc = "loop" /\ scan = <<>>
    /\ ~args.dry_run /\ to_commit > 0
    /\ Abort(<<>>, "COMMIT")
    /\ UNCHANGED <<parvars, args, snapshot, committed, backup_db, scan,
                   changed_ids, shown, to_commit, updated, csv, prev>>

\* Line 330 false: nothing to commit after the scan.
NoFinalCommit ==
    /\ pc = "loop" /\ scan = <<>>
    /\ ~(~args.dry_run /\ to_commit > 0)
    /\ pc' = "export"
    /\ UNCHANGED <<parvars, args, snapshot, committed, work, backup_tx,
                   backup_db, scan, changed_ids, shown, to_commit, updated,
                   csv, log, exit_status, prev>>

\* LIMIT n, when n > 0.
Limit(rows, n) == IF n > 0 /\ n < Len(rows) THEN SubSeq(rows, 1, n) ELSE rows

RECURSIVE ExportIds(_, _, _, _, _)
ExportIds(tbl, i, mode, w, ids) ==
    IF i > Len(tbl) THEN <<>>
    ELSE (IF /\ WhereHolds(w, tbl[i])
             /\ (mode = "changed" => i \in ids)
          THEN <<i>> ELSE <<>>) \o ExportIds(tbl, i + 1, mode, w, ids)

\* export_csv without the early return of lines 203-209.
EmptyChanged_never(mode, ids) == FALSE

\* Lines 203-204: changed mode with an empty set of ids; export_csv prints
\* its notice, writes the header alone and returns.
EmptyChanged(mode, ids) == mode = "changed" /\ ids = {}

\* The query of lines 210-214 is one the server accepts: "IN ()", built from
\* an empty set of ids, is a syntax error.
QueryValid(mode, ids) == mode = "changed" => ids # {}

\* export_csv: the rows written after the header.
export_csv(tbl, w, mode, ids, lim) ==
    IF EmptyChanged(mode, ids) THEN <<>>
    ELSE Let(Limit(ExportIds(tbl, 1, mode, w, ids), lim),
             LAMBDA sel :
                 [k \in 1..Len(sel) |->
                     [id |-> sel[k], tipo_via |-> tbl[sel[k]].tipo_via,
                      calle |-> tbl[sel[k]].calle, cp |-> tbl[sel[k]].cp]])

\* export_csv called with --export mode and --limit lim, and returning.
ExportWith(mode, lim) ==
    /\ pc = "export"
    /\ EmptyChanged(mode, changed_ids) \/ QueryValid(mode, changed_ids)
    /\ csv' = [written |-> TRUE, mode |-> mode, limit |-> lim,
               rows |-> export_csv(work, args.where, mode, changed_ids, lim),
               notice |-> EmptyChanged(mode, changed_ids)]
    /\ pc' = "finish"
    /\ UNCHANGED <<parvars, args, snapshot, committed, work, backup_tx,
                   backup_db, scan, changed_ids, shown, to_commit, updated,
                   log, exit_status, prev>>

\* Lines 336-345, with the --export and --limit of the command line.
ExportOk == \E mode \in ExportModes, lim \in 0..MaxLimit : ExportWith(mode, lim)

\* export_csv raises.
ExportFails ==
    /\ pc = "export"
    /\ Abort(<<>>, "EXPORT")
    /\ UNCHANGED <<parvars, args, snapshot, committed, backup_db, scan,
                   changed_ids, shown, to_commit, updated, csv, prev>>

\* Lines 347-351, then the with block of the connection ends and commits.
Finish ==
    /\ pc = "finish"
    /\ work' = IF args.dry_run THEN committed ELSE work
    /\ backup_tx' = IF args.dry_run THEN backup_db ELSE backup_tx
    /\ committed' = work'
    /\ backup_db' = backup_tx'
    /\ log' = log \o (IF args.dry_run THEN <<Ev("ROLLBACK", TRUE)>> ELSE <<>>)
                  \o <<Ev("COMMIT", TRUE)>>
    /\ pc' = "done"
    /\ exit_status' = 0
    /\ UNCHANGED <<parvars, args, snapshot, scan, changed_ids, shown,
                   to_commit, updated, csv, prev>>

\* main() is run again in normal mode, with the same arguments otherwise,
\* on the table a dry-run that ended well has left.
Rerun ==
    /\ pc = "done" /\ args.dry_run /\ ~prev.ran
    /\ prev' = [ran |-> TRUE, changed_ids |-> changed_ids,
                updated |-> updated, table |-> committed]
    /\ args' = [args EXCEPT !.dry_run = FALSE]
    /\ snapshot' = committed
    /\ work' = committed
    /\ scan' = <<>> /\ changed_ids' = {} /\ shown' = 0 /\ to_commit' = 0
    /\ updated' = 0 /\ csv' = NoCsv /\ log' = <<>> /\ pc' = "start"
    /\ exit_status' = -1
    /\ UNCHANGED <<parvars, committed, backup_tx, backup_db>>

Next ==
    \/ BackupOk \/ BackupCreateFails \/ BackupCommitFails \/ BackupSkipped
    \/ OpenScan
    \/ RowSkipped \/ RowSimulated \/ RowUpdated \/ RowUpdateFails
    \/ RowCommitFails
    \/ FinalCommit \/ FinalCommitFails \/ NoFinalCommit
    \/ ExportOk \/ ExportFails
    \/ Finish
    \/ Rerun

Spec == Init /\ [][Next]_vars

\* ------------------------------------------------------------------------
\* limpiar_par on one stored pair
\* ------------------------------------------------------------------------

\* The most words a calle drawn as input is made of.
MaxCalleWords == 3

Words == {<<>>, <<"A","v">>, <<"c",".">>, <<"S","u","r">>}

Seps == {<<" ">>, <<"\n">>}

\* The strings made of at most n words, each followed by a separator.
RECURSIVE Frases(_)
Frases(n) ==
    IF n = 0 THEN {<<>>}
    ELSE LET S == Frases(n - 1)
         IN  S \cup {s \o w \o p : s \in S, w \in Words, p \in Seps}

CalleInputs == Frases(MaxCalleWords) \cup {None}

TipoInputs ==
    { None, <<" ", "\t">>, <<"A","v",".">>, <<" ","c","a","l","l","e","\n">>,
      <<"B","l","v","d">>, <<"P","R","I","V",".">>,
      <<" ","L","o","t","e"," ","2"," ">>,
      <<"A","v","."," ","S","u","r">> }

InitPar ==
    /\ calle \in CalleInputs
    /\ tipo_via \in TipoInputs \cup {calle}
    /\ m = NoMatch /\ par = NoPar /\ par_again = NoPar
    /\ canon = None /\ canon_again = None /\ fila = NoPar
    /\ fase = "input"
    /\ RunOff

\* Lines 97-101: the extractor applied to calle.
Extraer ==
    /\ fase = "input"
    /\ m' = extraer(calle)
    /\ fase' = "extracted"
    /\ UNCHANGED <<tipo_via, calle, par, par_again, canon, canon_again, fila,
                   runvars>>

\* limpiar_par applied to the stored pair.
Limpiar ==
    /\ fase = "extracted"
    /\ par' = limpiar_par(tipo_via, calle)
    /\ fase' = "cleaned"
    /\ UNCHANGED <<tipo_via, calle, m, par_again, canon, canon_again, fila,
                   runvars>>

\* limpiar_par applied to the pair a first pass stored.
Relimpiar ==
    /\ fase = "cleaned"
    /\ par_again' = limpiar_par(par[1], par[2])
    /\ fase' = "recleaned"
    /\ UNCHANGED <<tipo_via, calle, m, par, canon, canon_again, fila,
                   runvars>>

NextPar == Extraer \/ Limpiar \/ Relimpiar

SpecPar == InitPar /\ [][NextPar]_vars

\* ------------------------------------------------------------------------
\* canonizar_tipo on one input
\* ------------------------------------------------------------------------

InitTipo ==
    /\ tipo_via \in TipoInputs \cup CalleInputs
    /\ calle = None /\ m = NoMatch /\ par = NoPar /\ par_again = NoPar
    /\ canon = None /\ canon_again = None /\ fila = NoPar
    /\ fase = "input"
    /\ RunOff

\* canonizar_tipo applied to the input.
Canonizar ==
    /\ fase = "input"
    /\ canon' = canonizar_tipo(tipo_via)
    /\ fase' = "canon"
    /\ UNCHANGED <<tipo_via, calle, m, par, par_again, canon_again, fila,
                   runvars>>

\* canonizar_tipo applied to what it returned.
Recanonizar ==
    /\ fase = "canon"
    /\ canon_again' = canonizar_tipo(canon)
    /\ fase' = "recanon"
    /\ UNCHANGED <<tipo_via, calle, m, par, par_again, canon, fila, runvars>>

NextTipo == Canonizar \/ Recanonizar

SpecTipo == InitTipo /\ [][NextTipo]_vars

\* ------------------------------------------------------------------------
\* clean_row and limpiar_par on the same stored pair
\* ------------------------------------------------------------------------

RowTipoInputs ==
    TipoInputs \cup {<<"V","í","a">>, <<"A","v","d","a",".">>, <<"p","e","r","i","f">>}

InitRow ==
    /\ calle \in CalleInputs
    /\ tipo_via \in RowTipoInputs \cup {calle}
    /\ m = NoMatch /\ par = NoPar /\ par_again = NoPar
    /\ canon = None /\ canon_again = None /\ fila = NoPar
    /\ fase = "input"
    /\ RunOff

\* clean_row applied to the pair limpiar_par was applied to.
CleanRow ==
    /\ fase = "cleaned"
    /\ fila' = clean_row(tipo_via, calle)
    /\ fase' = "row"
    /\ UNCHANGED <<tipo_via, calle, m, par, par_again, canon, canon_again,
                   runvars>>

NextRow == Extraer \/ Limpiar \/ CleanRow

SpecRow == InitRow /\ [][NextRow]_vars

\* ------------------------------------------------------------------------
\* Properties of limpiar_par (checked under SpecPar)
\* ------------------------------------------------------------------------

Cleaned == fase \in {"cleaned", "recleaned"}

\* The trimmed name s read word by word: s starts with a word of the type
\* patterns, then whitespace, then a name.
TokenLen(s) ==
    IF \E k \in 1..Len(s) : s[k] \in WS
    THEN (CHOOSE k \in 1..Len(s) : s[k] \in WS /\ \A i \in 1..(k-1) : s[i] \notin WS) - 1
    ELSE Len(s)

StartsWithType(s) ==
    /\ TokenLen(s) < Len(s)
    /\ lower(SubSeq(s, 1, TokenLen(s))) \in TIPO_GROUP
    /\ strip(SubSeq(s, TokenLen(s) + 1, Len(s))) # <<>>

LabelOf(tok) ==
    CANON_RULES[CHOOSE i \in 1..Len(CANON_RULES) : lower(tok) \in CANON_RULES[i].rx].canon

\* C3: applying limpiar_par to the pair it returned gives back that pair.
C3_SecondPassChangesNothing ==
    fase = "recleaned" => par_again = par

\* C6: whenever the trimmed calle starts with a recognized type token
\* followed by whitespace and a non-empty name, limpiar_par returns the
\* canonical label of that token and the rest of the name, whatever tipo_via.
C6_TypeInNameAlwaysWins ==
    (Cleaned /\ IsStr(calle) /\ StartsWithType(strip(calle))) =>
        LET s == strip(calle)
        IN  par = <<LabelOf(SubSeq(s, 1, TokenLen(s))),
                    strip(SubSeq(s, TokenLen(s) + 1, Len(s)))>>

\* The whitespace between the token and the name the extractor found.
Separator ==
    SubSeq(strip(calle), Len(m.tipo) + 1, Len(strip(calle)) - Len(m.nombre))

\* C9 as stated: whenever the extractor finds a token t and a remainder r in
\* s, t followed by one space followed by r is the trimmed s.
C9_SingleSpaceRebuildsName ==
    (fase # "input" /\ m.ok) =>
        m.tipo \o <<" ">> \o m.nombre = strip(calle)

\* C9 as amended: whenever the extractor finds a token t and a remainder r in
\* s, the trimmed s is t, then the run of one or more whitespace characters
\* that separated them, then r; the extractor drops that run and nothing
\* else, so t, one space and r give the trimmed s exactly when the run is one
\* space.
C9_RebuildsNameUpToSeparator ==
    (fase # "input" /\ m.ok) =>
        /\ Len(Separator) >= 1
        /\ \A i \in 1..Len(Separator) : Separator[i] \in WS
        /\ m.tipo \o Separator \o m.nombre = strip(calle)
        /\ (m.tipo \o <<" ">> \o m.nombre = strip(calle)) <=> (Separator = <<" ">>)

C9_Witness ==
    fase = "extracted" /\ m.ok /\ Len(Separator) > 1

\* C10 as stated: the new type is a canonical label or the trimmed tipo_via,
\* and it is not empty when tipo_via was not empty.
C10_LabelOrTrimmedTipo ==
    Cleaned =>
        /\ \/ par[1] \in CanonLabels
           \/ par[1] = IF IsStr(tipo_via) THEN strip(tipo_via) ELSE tipo_via
        /\ (IsStr(tipo_via) /\ tipo_via # <<>>) => par[1] # <<>>

\* C10 as amended: the new type is a canonical label or, when no rule
\* matched, the trimmed tipo_via, or tipo_via itself, untrimmed, when
\* tipo_via is null or holds only whitespace; it is not empty when tipo_via
\* was not empty.
C10_LabelOrTrimmedOrBlankTipo ==
    Cleaned =>
        /\ \/ par[1] \in CanonLabels
           \/ /\ ~m.ok
              /\ IsStr(tipo_via) /\ strip(tipo_via) # <<>>
              /\ par[1] = strip(tipo_via)
           \/ /\ ~m.ok
              /\ ~IsStr(tipo_via) \/ strip(tipo_via) = <<>>
              /\ par[1] = tipo_via
        /\ (IsStr(tipo_via) /\ tipo_via # <<>>) => par[1] # <<>>

C10_Witness ==
    /\ fase = "cleaned" /\ ~m.ok
    /\ tipo_via = <<" ", "\t">> /\ par[1] = <<" ", "\t">>

\* limpiar_par with step 1 and step 2 alone: the extraction from calle,
\* else the canonical tipo_via and the trimmed calle.
SinPaso3(tv, ca) ==
    Let(extraer(ca),
        LAMBDA m1 :
            IF m1.ok THEN <<canonizar_tipo(m1.tipo), m1.nombre>>
            ELSE <<canonizar_tipo(tv), IF IsStr(ca) THEN strip(ca) ELSE ca>>)

\* C17: step 3 of limpiar_par never changes the result: for every pair,
\* limpiar_par returns what steps 1 and 2 alone return.
C17_Step3ChangesNothing ==
    Cleaned => par = SinPaso3(tipo_via, calle)

C17_Witness ==
    /\ fase = "cleaned" /\ ~m.ok
    /\ IsStr(tipo_via) /\ IsStr(calle)
    /\ lower(strip(tipo_via)) = lower(strip(calle))
    /\ StartsWithType(strip(calle))
    /\ par = <<strip(tipo_via), strip(calle)>>

\* ------------------------------------------------------------------------
\* Properties of canonizar_tipo (checked under SpecTipo)
\* ------------------------------------------------------------------------

\* C11: canonizar_tipo is idempotent: applied to what it returned for any
\* input (null, empty, blank, a bare token, a token followed by a name, any
\* other string) it returns that same value.
C11_CanonizarTipoIdempotent ==
    fase = "recanon" => canon_again = canon

C11_Witness ==
    /\ fase = "recanon"
    /\ IsStr(tipo_via) /\ TIPO_INICIO_RE_match(strip(tipo_via)).ok
    /\ canon \in CanonLabels /\ canon # strip(tipo_via)
    /\ canon_again = canon

\* ------------------------------------------------------------------------
\* Properties of clean_row (checked under SpecRow)
\* ------------------------------------------------------------------------

\* C12: for every pair, clean_row of the flat-file entry point returns the
\* pair limpiar_par returns.
C12_CleanRowIsLimpiarPar ==
    fase = "row" => fila = par

\* ------------------------------------------------------------------------
\* Properties of a run of main() (checked under Spec)
\* ------------------------------------------------------------------------

Running == pc # "off"

Scanning == pc \in {"loop", "export", "finish", "done"}

\* The ids the scan of this run selects, and those it has handled.
Scope == {i \in DOMAIN snapshot : WhereHolds(args.where, snapshot[i])}

Handled == Scope \ {scan[k].id : k \in 1..Len(scan)}

Stored(i) == <<snapshot[i].tipo_via, snapshot[i].calle>>

\* What limpiar_par returns for each stored pair.
PlanOf == [pr \in StoredPairs |-> limpiar_par(pr[1], pr[2])]

Plan(i) == PlanOf[Stored(i)]

Planned(i) ==
    Let(Plan(i), LAMBDA p : [snapshot[i] EXCEPT !.tipo_via = p[1], !.calle = p[2]])

\* The ids of the scope whose plan differs from what is stored, in order.
RECURSIVE ChangedFrom(_)
ChangedFrom(i) ==
    IF i > Len(snapshot) THEN <<>>
    ELSE (IF i \in Scope /\ Plan(i) # Stored(i) THEN <<i>> ELSE <<>>)
         \o ChangedFrom(i + 1)

Sent(op, ok) == {i \in 1..Len(log) : log[i] = Ev(op, ok)}

\* The commits of a full batch that succeeded.
BatchCommits ==
    Cardinality({i \in Sent("COMMIT", TRUE) : i > 1 /\ log[i-1].op = "UPDATE"})

FailedOn(op) == pc = "failed" /\ Sent(op, FALSE) # {}

Persisted == {i \in DOMAIN snapshot : committed[i] # snapshot[i]}

\* C1: in normal mode, when an UPDATE or a commit fails after k batch
\* commits, the planned mutations persisted are exactly the first k*N ones:
\* nothing sent since the last commit persists, no committed batch is undone.
C1_BatchAtomicity ==
    (~args.dry_run /\ (FailedOn("UPDATE") \/ FailedOn("COMMIT"))) =>
        /\ Cardinality(Persisted) = BatchCommits * args.batch_commit
        /\ Persisted = {ChangedFrom(1)[k] : k \in 1..(BatchCommits * args.batch_commit)}
        /\ \A i \in Persisted : committed[i] = Planned(i)
        /\ work = committed

C1_Witness ==
    /\ ~args.dry_run /\ FailedOn("COMMIT")
    /\ args.batch_commit = 2 /\ BatchCommits = 1
    /\ Cardinality(changed_ids) = 3 /\ Cardinality(Persisted) = 2

\* C2: a dry-run executes no UPDATE, creates no backup and commits no write:
\* the table holds at every point, and so at the end of a run that succeeds
\* or fails, what it held at the start.
C2_DryRunWritesNothing ==
    (Running /\ args.dry_run) =>
        /\ committed = snapshot /\ work = snapshot
        /\ backup_tx = NoTable /\ backup_db = NoTable
        /\ Sent("UPDATE", TRUE) = {} /\ Sent("UPDATE", FALSE) = {}
        /\ Sent("CREATE", TRUE) = {} /\ Sent("CREATE", FALSE) = {}

C2_Witness ==
    /\ args.dry_run /\ args.backup /\ pc = "done"
    /\ Cardinality(changed_ids) >= 2 /\ csv.written

Trimmed(v) == IF IsStr(v) THEN strip(v) ELSE v

\* C4 as stated: a record is treated as changed iff its plan differs from
\* the stored fields once both sides are trimmed.
C4_ChangedIffDiffersTrimmed ==
    Scanning =>
        \A i \in Handled : \E p \in {Plan(i)} :
            (i \in changed_ids) <=>
                \/ Trimmed(p[1]) # Trimmed(snapshot[i].tipo_via)
                \/ Trimmed(p[2]) # Trimmed(snapshot[i].calle)

\* C4 as amended: a record is treated as changed (added to the ChangeSet,
\* counted and, in normal mode, updated) iff its planned type or name differs
\* from typeVia or streetName exactly as stored, with no trimming of the
\* stored side: a record whose stored fields equal the plan is skipped and
\* never updated, and one that differs from it by surrounding whitespace
\* alone is updated.
C4_ChangedIffDiffersAsStored ==
    Scanning =>
        /\ changed_ids \subseteq Handled
        /\ \A i \in Handled : (i \in changed_ids) <=> (Plan(i) # Stored(i))
        /\ updated = Cardinality(changed_ids)
        /\ ~args.dry_run =>
              \A i \in DOMAIN snapshot :
                  work[i] = IF i \in changed_ids THEN Planned(i) ELSE snapshot[i]

C4_Witness ==
    /\ Scanning /\ ~args.dry_run
    /\ \E i \in Handled \ changed_ids : Stored(i) = <<Privada, LasFlores>>
    /\ \E i \in changed_ids :
          /\ Stored(i) = <<Privada \o <<" ">>, LasFlores>>
          /\ work[i].tipo_via = Privada

\* C5: changed-mode export without a limit emits exactly the rows whose id
\* is in the ChangeSet of the run.
C5_ChangedExportIsChangeSet ==
    (csv.written /\ csv.mode = "changed" /\ csv.limit = 0) =>
        /\ {csv.rows[k].id : k \in 1..Len(csv.rows)} = changed_ids
        /\ Len(csv.rows) = Cardinality(changed_ids)

\* C7: with backup requested in normal mode the backup is created before
\* the first UPDATE; when the backup fails no UPDATE is executed; a dry-run
\* never creates the backup.
C7_BackupBeforeAnyUpdate ==
    Running =>
        /\ (args.backup /\ ~args.dry_run) =>
              \A i \in Sent("UPDATE", TRUE) \cup Sent("UPDATE", FALSE) :
                  /\ \E j \in Sent("CREATE", TRUE) : j < i
                  /\ backup_db = snapshot
        /\ (Sent("CREATE", FALSE) # {}
            \/ (args.backup /\ ~args.dry_run /\ backup_db = NoTable)) =>
              Sent("UPDATE", TRUE) \cup Sent("UPDATE", FALSE) = {}
        /\ args.dry_run => (Sent("CREATE", TRUE) = {} /\ backup_db = NoTable)

C7_Witness ==
    /\ args.backup /\ ~args.dry_run
    /\ Sent("UPDATE", TRUE) # {} /\ backup_db = snapshot

\* C8: a dry-run and the normal run on the same snapshot with the same
\* filter, both without failure, end with the same count and the same
\* ChangeSet; only the normal run persists the mutations.
C8_DryRunEquivalence ==
    (prev.ran /\ pc = "done") =>
        /\ changed_ids = prev.changed_ids
        /\ updated = prev.updated
        /\ prev.table = snapshot
        /\ \A i \in DOMAIN snapshot :
              committed[i] = IF i \in changed_ids THEN Planned(i) ELSE snapshot[i]

C8_Witness ==
    /\ prev.ran /\ pc = "done"
    /\ Cardinality(changed_ids) >= 2 /\ committed # snapshot

\* C13: a normal-mode run writes only the tipo_via and calle of the rows of
\* its ChangeSet: at every point, and so at the end, the table has the rows
\* it started with, every other column of every row holds its first value,
\* and every row outside the ChangeSet, every row the filter excludes and
\* every row whose plan equals what is stored is as it was at the start.
C13_OnlyChangeSetFieldsWritten ==
    (Running /\ ~args.dry_run) =>
        \A tbl \in {work, committed} :
            /\ DOMAIN tbl = DOMAIN snapshot
            /\ \A i \in DOMAIN snapshot :
                  /\ tbl[i].cp = snapshot[i].cp
                  /\ i \notin changed_ids => tbl[i] = snapshot[i]
                  /\ i \notin Scope => tbl[i] = snapshot[i]
                  /\ Plan(i) = Stored(i) => tbl[i] = snapshot[i]

C13_Witness ==
    /\ pc = "done" /\ ~args.dry_run /\ args.where = "zone"
    /\ \E i \in DOMAIN snapshot \ Scope :
          Plan(i) # Stored(i) /\ committed[i] = snapshot[i]
    /\ \E i \in Scope \ changed_ids : committed[i] = snapshot[i]
    /\ \E i \in changed_ids :
          /\ committed[i] # snapshot[i]
          /\ committed[i].cp = snapshot[i].cp

\* C14: with an empty ChangeSet, changed-mode export_csv returns without an
\* error for every filter and limit, having printed its notice and written
\* the header and no data row.
C14_EmptyChangeSetHeaderOnly ==
    /\ (pc = "export" /\ changed_ids = {}) =>
          \A lim \in 0..MaxLimit : ENABLED ExportWith("changed", lim)
    /\ (csv.written /\ csv.mode = "changed" /\ changed_ids = {}) =>
          /\ csv.rows = <<>> /\ csv.notice
          /\ pc \in {"finish", "done"}
          /\ pc = "done" => exit_status = 0

C14_Witness ==
    /\ csv.written /\ csv.mode = "changed" /\ changed_ids = {}
    /\ csv.limit > 0 /\ args.where # "none" /\ Scope # {}
    /\ csv.rows = <<>> /\ csv.notice /\ pc = "done"

\* The positions of the log at which a statement failed.
Failures == {i \in 1..Len(log) : ~log[i].ok}

\* C15: when the backup, an UPDATE, a commit or the export fails the run
\* stops at once: the rollback of the open transaction is all that follows
\* the failure, so no UPDATE and no commit does, no step of the run is
\* taken any more, an export not yet started is never started, and the exit
\* status is not zero; a run in which no step fails ends with status zero.
C15_FailureStopsRun ==
    Running =>
        /\ \A i \in Failures :
              /\ log[i].op \in {"CREATE", "UPDATE", "COMMIT", "EXPORT"}
              /\ i = Len(log) - 1 /\ log[Len(log)] = Ev("ROLLBACK", TRUE)
              /\ pc = "failed"
              /\ ~csv.written
        /\ pc = "failed" =>
              /\ Failures # {}
              /\ exit_status # 0
              /\ ~ENABLED Next
        /\ (pc = "done" /\ Failures = {}) => exit_status = 0
        /\ pc = "done" => Failures = {}
        /\ pc \notin {"done", "failed"} => exit_status = -1

C15_Witness ==
    /\ pc = "failed" /\ exit_status = 1
    /\ Sent("UPDATE", FALSE) # {} /\ Sent("COMMIT", TRUE) # {}
    /\ Len(scan) >= 2 /\ Plan(scan[2].id) # Stored(scan[2].id)
    /\ ~csv.written

\* The updates executed in the open transaction and not committed.
Pending == Cardinality({i \in DOMAIN snapshot : work[i] # committed[i]})

\* The number of UPDATEs in a row that end at position i of the log.
RECURSIVE UpdRun(_)
UpdRun(i) ==
    IF i = 0 \/ log[i] # Ev("UPDATE", TRUE) THEN 0 ELSE 1 + UpdRun(i - 1)

\* The positions of the commits of the mutation phase.
LoopCommits ==
    {i \in Sent("COMMIT", TRUE) : i > 1 /\ log[i-1].op = "UPDATE"}

\* C16: in a normal-mode run with batch size N and no failure, after each
\* record the pending updates are fewer than N and the persisted mutations
\* are the changed records seen less the pending ones; a commit follows an
\* UPDATE exactly when N are pending, and once more after the scan when
\* some are pending; after the scan every changed record is persisted and
\* nothing is pending.
C16_BatchingInvariants ==
    (Scanning /\ ~args.dry_run /\ Failures = {}) =>
        \E N \in {args.batch_commit} :
            /\ N >= 1
            /\ Pending < N
            /\ Cardinality(Persisted) = Cardinality(changed_ids) - Pending
            /\ pc = "loop" => to_commit = Pending
            /\ \A i \in 1..Len(log) :
                  log[i] = Ev("UPDATE", TRUE) =>
                      IF UpdRun(i) = N
                      THEN i < Len(log) /\ log[i+1] = Ev("COMMIT", TRUE)
                      ELSE \/ i = Len(log) /\ pc = "loop"
                           \/ i < Len(log) /\ log[i+1] = Ev("UPDATE", TRUE)
                           \/ /\ i < Len(log) /\ log[i+1] = Ev("COMMIT", TRUE)
                              /\ pc # "loop"
                              /\ \A k \in (i+1)..Len(log) : log[k].op # "UPDATE"
            /\ Cardinality(LoopCommits) =
                  IF pc = "loop" THEN Cardinality(changed_ids) \div N
                  ELSE (Cardinality(changed_ids) + N - 1) \div N
            /\ pc # "loop" =>
                  /\ Pending = 0
                  /\ Persisted = changed_ids
                  /\ \A i \in changed_ids : committed[i] = Planned(i)

C16_Witness ==
    /\ pc = "done" /\ ~args.dry_run /\ ~prev.ran
    /\ args.batch_commit = 2 /\ Cardinality(changed_ids) = 3
    /\ Cardinality(LoopCommits) = 2
    /\ Persisted = changed_ids

=============================================================================
